---- MODULE Spec2Model ----
(***************************************************************************)
(* Model of the page-collection interaction core of PDFPageEditorApp       *)
(* (src/gui.py): the ordered page list and its visual slots, the           *)
(* multi-selection (plain / shift / ctrl click) and the drag-and-drop      *)
(* relocation performed on button release.                                 *)
(*                                                                         *)
(* Python lists are TLA+ sequences; Python position i is TLA+ index i+1.   *)
(* An Optional[int] field is <<>> for None and <<v>> for the integer v.    *)
(***************************************************************************)
EXTENDS Integers, Sequences, FiniteSets, TLC

\* ---------------------------------------------------------------- bounds
\* Number of PageItems the import may create.
MaxPages == 4
\* Width of one laid-out page frame (winfo_width), in pixels.
FrameWidth == 2
\* Rows handed to the drop-index resolver on its own: slots, slot width, gap.
MaxSlots == 3
MaxSlotWidth == 3
MaxGap == 2
\* Number of PageItems the import may create when exports are followed as well.
MaxExportPages == 3
\* Number of PageItems the import may create when stray clicks are followed as well.
MaxStrayPages == 3
\* Pages of every imported document.
DocPages == 2

\* ------------------------------------------------------ program constants
PAGE_FRAME_PADX == 8

VARIABLES
    pages,               \* self.pages: list of PageItem (item identities)
    page_frames,         \* self.page_frames: list of tk.Frame (the frame of item k is k)
    selected_indices,    \* self.selected_indices: list of int
    last_clicked_index,  \* self.last_clicked_index: Optional[int]
    dragging,            \* self.dragging: bool
    drag_start_index,    \* self.drag_start_index: Optional[int]
    drop_index,          \* self.drop_index: Optional[int]
    insert_bar,          \* self.insert_bar is not None
    created,             \* number of PageItem objects constructed so far
    button,              \* mouse button 1 is held (between <Button-1> and <ButtonRelease-1>)
    press_plain,         \* the <Button-1> of the current press came with no modifier
    include_var,         \* item.include_var.get() of every PageItem, by item identity
    last                 \* the last handler that ran, its inputs and the state it started from

vars == <<pages, page_frames, selected_indices, last_clicked_index, dragging,
          drag_start_index, drop_index, insert_bar, created, button, press_plain, include_var, last>>

\* ------------------------------------------------------- Optional[int]
None == <<>>
Some(v) == <<v>>

\* ------------------------------------------------------- Python lists
Max(a, b) == IF a > b THEN a ELSE b
Min(a, b) == IF a < b THEN a ELSE b

\* list(range(a, b))
PyRange(a, b) == [k \in 1..Max(b - a, 0) |-> a + k - 1]

\* A (possibly negative) Python index made non-negative.
PyNorm(n, i) == IF i < 0 THEN i + n ELSE i

\* list[i] and del list[i] raise IndexError unless this holds.
PyValid(n, i) == PyNorm(n, i) >= 0 /\ PyNorm(n, i) < n

\* list[i]
PyGet(list, i) == list[PyNorm(Len(list), i) + 1]

\* del list[i]  /  list.pop(i)
PyDel(list, i) ==
    LET p == PyNorm(Len(list), i) + 1
    IN  [k \in 1..(Len(list) - 1) |-> IF k < p THEN list[k] ELSE list[k + 1]]

\* list.insert(i, x): the index is clamped into [0, len(list)]
PyInsert(list, i, x) ==
    LET n == Len(list)
        p == Min(Max(PyNorm(n, i), 0), n) + 1
    IN  [k \in 1..(n + 1) |-> IF k < p THEN list[k]
                              ELSE IF k = p THEN x
                              ELSE list[k - 1]]

\* x in list
PyIn(x, list) == \E k \in DOMAIN list : list[k] = x

\* list.index(x): position of the first occurrence
PyIndex(list, x) == (CHOOSE k \in DOMAIN list :
                        list[k] = x /\ \A j \in 1..(k - 1) : list[j] # x) - 1

\* list.remove(x): deletes the first occurrence
PyRemove(list, x) == PyDel(list, PyIndex(list, x))

\* Variant: the removal loop walks the indices from lowest to highest.
Reversed_Identity(list) == list

\* reversed(list)
Reversed(list) == [k \in 1..Len(list) |-> list[Len(list) + 1 - k]]

RECURSIVE SortedInsert(_, _)
SortedInsert(list, x) ==
    IF list = <<>> THEN <<x>>
    ELSE IF x < Head(list) THEN <<x>> \o list
    ELSE <<Head(list)>> \o SortedInsert(Tail(list), x)

\* sorted(list) / list.sort()
RECURSIVE Sorted(_)
Sorted(list) ==
    IF list = <<>> THEN <<>>
    ELSE SortedInsert(Sorted(Tail(list)), Head(list))

Range(list) == {list[k] : k \in DOMAIN list}

\* ------------------------------------------------------- slot geometry
\* f.winfo_x() of the frame gridded in column i (padx on both sides of a frame)
winfo_x(i) == PAGE_FRAME_PADX + i * (FrameWidth + 2 * PAGE_FRAME_PADX)

\* Width of the inner row holding n frames.
RowWidth(n) == n * (FrameWidth + 2 * PAGE_FRAME_PADX)

\* Pointer x coordinates (relative to the inner row) tried by a motion event.
PointerXs(n) ==
    {-1, RowWidth(n)} \cup {winfo_x(i) + o : i \in 0..(n - 1), o \in 0..FrameWidth}

\* positions = [(i, f.winfo_x(), f.winfo_width()) ...] for a row of n laid-out frames
Positions(n) == [k \in 1..n |-> [i |-> k - 1, x |-> winfo_x(k - 1), w |-> FrameWidth]]

\* Variant: a pointer exactly on a midpoint still counts as left of it.
RECURSIVE ScanMidpoints_Inclusive(_, _, _)
ScanMidpoints_Inclusive(positions, k, x2) ==
    IF k > Len(positions) THEN Len(positions)
    ELSE IF x2 <= 2 * positions[k].x + positions[k].w THEN positions[k].i
    ELSE ScanMidpoints_Inclusive(positions, k + 1, x2)

\* The scan of _compute_drop_index from the k-th entry on: x_in_inner < x + w / 2.
\* x2 is twice the pointer x, so that the midpoint x + w / 2 needs no fraction.
RECURSIVE ScanMidpoints(_, _, _)
ScanMidpoints(positions, k, x2) ==
    IF k > Len(positions) THEN Len(positions)
    ELSE IF x2 < 2 * positions[k].x + positions[k].w THEN positions[k].i
    ELSE ScanMidpoints(positions, k + 1, x2)

\* _compute_drop_index on a given list of positions
DropIndex(positions, x2) ==
    IF positions = <<>> THEN 0 ELSE ScanMidpoints(positions, 1, x2)

_compute_drop_index(n, x_in_inner) == DropIndex(Positions(n), 2 * x_in_inner)

\* ------------------------------------------------------- selection logic
\* Widgets that carry the three pointer bindings: the page frames.
\* StrayWidget is a widget that is not (a child of) any page frame.
StrayWidget == 0

_index_from_frame_or_child(frames, widget) ==
    IF PyIn(widget, frames) THEN PyIndex(frames, widget) ELSE -1

\* Variant: the shift range runs one position past its upper end.
ClickSelection_RangePastEnd(sel, anchor, index, shift, ctrl) ==
    IF shift /\ anchor # None
    THEN PyRange(Min(anchor[1], index), Max(anchor[1], index) + 2)
    ELSE IF ctrl
    THEN Sorted(IF PyIn(index, sel) THEN PyRemove(sel, index) ELSE Append(sel, index))
    ELSE <<index>>

\* Variant: a ctrl click appends the position even when it is already selected.
ClickSelection_CtrlAlwaysAppends(sel, anchor, index, shift, ctrl) ==
    IF shift /\ anchor # None
    THEN PyRange(Min(anchor[1], index), Max(anchor[1], index) + 1)
    ELSE IF ctrl
    THEN Sorted(Append(sel, index))
    ELSE <<index>>

\* Variant: an unmodified click toggles the position like a ctrl click.
ClickSelection_PlainToggles(sel, anchor, index, shift, ctrl) ==
    IF shift /\ anchor # None
    THEN PyRange(Min(anchor[1], index), Max(anchor[1], index) + 1)
    ELSE Sorted(IF PyIn(index, sel) THEN PyRemove(sel, index) ELSE Append(sel, index))

\* Variant: a shift click without an anchor selects the range from position 0.
ClickSelection_ShiftFromZero(sel, anchor, index, shift, ctrl) ==
    IF shift
    THEN PyRange(Min(IF anchor = None THEN 0 ELSE anchor[1], index),
                 Max(IF anchor = None THEN 0 ELSE anchor[1], index) + 1)
    ELSE IF ctrl
    THEN Sorted(IF PyIn(index, sel) THEN PyRemove(sel, index) ELSE Append(sel, index))
    ELSE <<index>>

\* Variant: the ctrl branch does not sort the list after appending.
ClickSelection_NoSort(sel, anchor, index, shift, ctrl) ==
    IF shift /\ anchor # None
    THEN PyRange(Min(anchor[1], index), Max(anchor[1], index) + 1)
    ELSE IF ctrl
    THEN IF PyIn(index, sel) THEN PyRemove(sel, index) ELSE Append(sel, index)
    ELSE <<index>>

\* Variant: an unmodified click on a selected position keeps the whole selection.
ClickSelection_PlainKeepsSelected(sel, anchor, index, shift, ctrl) ==
    IF shift /\ anchor # None
    THEN PyRange(Min(anchor[1], index), Max(anchor[1], index) + 1)
    ELSE IF ctrl
    THEN Sorted(IF PyIn(index, sel) THEN PyRemove(sel, index) ELSE Append(sel, index))
    ELSE IF PyIn(index, sel) THEN sel ELSE <<index>>

\* self.selected_indices after _on_click
ClickSelection(sel, anchor, index, shift, ctrl) ==
    IF shift /\ anchor # None
    THEN PyRange(Min(anchor[1], index), Max(anchor[1], index) + 1)
    ELSE IF ctrl
    THEN Sorted(IF PyIn(index, sel) THEN PyRemove(sel, index) ELSE Append(sel, index))
    ELSE <<index>>

\* Variant: a range select moves the anchor to the clicked position as well.
ClickAnchor_Moves(anchor, index, shift, ctrl) == Some(index)

\* Variant: a ctrl click leaves the anchor as it was.
ClickAnchor_CtrlKeeps(anchor, index, shift, ctrl) ==
    IF (shift /\ anchor # None) \/ ctrl THEN anchor ELSE Some(index)

\* self.last_clicked_index after _on_click
ClickAnchor(anchor, index, shift, ctrl) ==
    IF shift /\ anchor # None THEN anchor ELSE Some(index)

\* Variant: the press already counts as a drag towards the pressed slot.
ClickDragState_Active(index) ==
    [dragging |-> TRUE, drag_start_index |-> Some(index), drop_index |-> Some(index)]

\* "Prepare for potential drag"
ClickDragState(index) ==
    [dragging |-> FALSE, drag_start_index |-> Some(index), drop_index |-> None]

\* _on_click(event, frame) with the modifier bits of event.state
OnClick(widget, shift, ctrl) ==
    LET index == _index_from_frame_or_child(page_frames, widget)
        ds == ClickDragState(index)
    IN  /\ ~button
        /\ selected_indices' =
               ClickSelection(selected_indices, last_clicked_index, index, shift, ctrl)
        /\ last_clicked_index' = ClickAnchor(last_clicked_index, index, shift, ctrl)
        /\ dragging' = ds.dragging
        /\ drag_start_index' = ds.drag_start_index
        /\ drop_index' = ds.drop_index
        /\ button' = TRUE
        /\ press_plain' = (~shift /\ ~ctrl)
        /\ last' = [handler |-> "click", index |-> index, shift |-> shift, ctrl |-> ctrl,
                    selected_indices |-> selected_indices,
                    last_clicked_index |-> last_clicked_index]
        /\ UNCHANGED <<pages, page_frames, insert_bar, created, include_var>>

\* <Button-1> on a page frame or its thumbnail
Click == \E f \in Range(page_frames), shift \in BOOLEAN, ctrl \in BOOLEAN :
             OnClick(f, shift, ctrl)

\* _on_click reached with a widget outside every page frame
StrayClick == \E shift \in BOOLEAN, ctrl \in BOOLEAN : OnClick(StrayWidget, shift, ctrl)

\* ------------------------------------------------------- import
\* Variant: the new item is put in front of the list.
AppendItem_Front(list, item) == <<item>> \o list

\* self.pages.append(item)
AppendItem(list, item) == Append(list, item)

\* The tk.Frame that _create_page_frame builds for an item.
FrameOf(item) == item

\* One page of _import_pdfs: pages.append(item); _create_page_frame(len(pages) - 1)
AppendUpTo(limit) ==
    /\ created < limit
    /\ created' = created + 1
    /\ include_var' = Append(include_var, TRUE)
    /\ pages' = AppendItem(pages, created + 1)
    /\ page_frames' = Append(page_frames, FrameOf(created + 1))
    /\ last' = [handler |-> "append", pages |-> pages, page_frames |-> page_frames,
                selected_indices |-> selected_indices,
                last_clicked_index |-> last_clicked_index, dragging |-> dragging,
                drag_start_index |-> drag_start_index, drop_index |-> drop_index,
                button |-> button]
    /\ UNCHANGED <<selected_indices, last_clicked_index, dragging, drag_start_index,
                   drop_index, insert_bar, button, press_plain>>

AppendPage == AppendUpTo(MaxPages)

\* ------------------------------------------------------- include flags and export
\* item.source_path and item.page_index: the documents are imported one after the
\* other, each with DocPages pages, so item k is page (k-1) % DocPages of document
\* (k-1) \div DocPages.
source_path(item) == (item - 1) \div DocPages
page_index(item) == (item - 1) % DocPages

\* The Checkbutton of one page frame flips that item's include_var.
ToggleInclude ==
    /\ ~button
    /\ \E item \in 1..created :
           include_var' = [include_var EXCEPT ![item] = ~include_var[item]]
    /\ last' = [handler |-> "toggle"]
    /\ UNCHANGED <<pages, page_frames, selected_indices, last_clicked_index, dragging,
                   drag_start_index, drop_index, insert_bar, created, button,
                   press_plain>>

\* Variant: the export walks the items in the order they were imported.
ExportOrder_Imported(ps) == Sorted(ps)

\* "for item in self.pages"
ExportOrder(ps) == ps

\* Variant: the include flag is not consulted.
IsIncluded_Always(inc, item) == TRUE

\* item.include_var.get()
IsIncluded(inc, item) == inc[item]

\* The loop of _export_pdf over items from the k-th on. readers is the set of sources
\* opened so far, writer the pages added so far; PdfReader raises for a source in
\* unreadable.
RECURSIVE ExportLoop(_, _, _, _, _, _)
ExportLoop(items, k, inc, unreadable, readers, writer) ==
    IF k > Len(items)
    THEN [raised |-> FALSE, readers |-> readers, writer |-> writer]
    ELSE IF ~IsIncluded(inc, items[k])
    THEN ExportLoop(items, k + 1, inc, unreadable, readers, writer)
    ELSE IF source_path(items[k]) \notin readers /\ source_path(items[k]) \in unreadable
    THEN [raised |-> TRUE, readers |-> readers, writer |-> writer]
    ELSE ExportLoop(items, k + 1, inc, unreadable,
                    readers \cup {source_path(items[k])},
                    Append(writer, <<source_path(items[k]), page_index(items[k])>>))

\* on_export and _export_pdf. chosen: the save dialog returned a path. The outcome,
\* the sources read and what was written to the path are kept in last.
ExportOutcome(chosen, unreadable) ==
    IF pages = <<>>
    THEN [outcome |-> "no_pages", read |-> {}, written |-> None]
    ELSE IF ~chosen
    THEN [outcome |-> "cancelled", read |-> {}, written |-> None]
    ELSE LET run == ExportLoop(ExportOrder(pages), 1, include_var, unreadable, {}, <<>>)
         IN  IF run.raised
             THEN [outcome |-> "failed", read |-> run.readers, written |-> None]
             ELSE IF Len(run.writer) = 0
             THEN [outcome |-> "empty", read |-> run.readers, written |-> None]
             ELSE [outcome |-> "written", read |-> run.readers,
                   written |-> Some(run.writer)]

\* The Export... button (pypdf being installed)
Export ==
    /\ ~button
    /\ \E chosen \in BOOLEAN :
         \E unreadable \in IF chosen THEN SUBSET {source_path(i) : i \in 1..created}
                                     ELSE {{}} :
           last' = [handler |-> "export", chosen |-> chosen,
                    result |-> ExportOutcome(chosen, unreadable),
                    pages |-> pages, page_frames |-> page_frames,
                    selected_indices |-> selected_indices,
                    last_clicked_index |-> last_clicked_index,
                    include_var |-> include_var, dragging |-> dragging,
                    drag_start_index |-> drag_start_index, drop_index |-> drop_index]
    /\ UNCHANGED <<pages, page_frames, selected_indices, last_clicked_index, dragging,
                   drag_start_index, drop_index, insert_bar, created, button,
                   press_plain, include_var>>

\* ------------------------------------------------------- drag and drop
\* _on_drag(event, frame): <B1-Motion>
Drag ==
    /\ button
    /\ \E x_in_inner \in PointerXs(Len(page_frames)) :
           IF drag_start_index = None
           THEN UNCHANGED <<dragging, drop_index, insert_bar>>
           ELSE /\ dragging' = TRUE
                /\ drop_index' = Some(_compute_drop_index(Len(page_frames), x_in_inner))
                /\ insert_bar' = TRUE
    /\ last' = [handler |-> "drag"]
    /\ UNCHANGED <<pages, page_frames, selected_indices, last_clicked_index,
                   drag_start_index, created, button, press_plain, include_var>>

\* "if not self.dragging or self.drop_index is None: return"
ReleaseReturnsEarly(drag, drop) == ~drag \/ drop = None

\* Variant: counts the selected positions up to and including dest.
RemovedBefore_Inclusive(sel, dest) == Cardinality({k \in DOMAIN sel : sel[k] <= dest})

\* removed_before = sum(1 for i in sel if i < dest)
RECURSIVE RemovedBefore(_, _)
RemovedBefore(sel, dest) ==
    IF sel = <<>> THEN 0
    ELSE (IF Head(sel) < dest THEN 1 ELSE 0) + RemovedBefore(Tail(sel), dest)

\* Variant: the destination is not adjusted for the removals.
AdjustedDest_NoShift(sel, drop) == drop

\* "Compute destination index adjusted for removals"
AdjustedDest(sel, drop) ==
    LET dest == drop - RemovedBefore(sel, drop)
    IN  IF dest < 0 THEN 0 ELSE dest

\* [list[i] for i in sel]
Extract(list, sel) == [k \in DOMAIN sel |-> PyGet(list, sel[k])]

\* Variant: the frames are collected from the highest index down.
FramesToMove_Reversed(frames, sel) == Reversed(Extract(frames, sel))

\* frames_to_move = [self.page_frames[i] for i in sel]
FramesToMove(frames, sel) == Extract(frames, sel)

\* "for i in reversed(sel): del self.pages[i]; f = self.page_frames.pop(i)"
\* order is the sequence of indices still to delete; raised tells an IndexError.
RECURSIVE RemoveSelected(_, _, _)
RemoveSelected(ps, fs, order) ==
    IF order = <<>> THEN [pages |-> ps, page_frames |-> fs, raised |-> FALSE]
    ELSE IF ~PyValid(Len(ps), Head(order))
    THEN [pages |-> ps, page_frames |-> fs, raised |-> TRUE]
    ELSE RemoveSelected(PyDel(ps, Head(order)), PyDel(fs, Head(order)), Tail(order))

\* "for offset, x in enumerate(moved): list.insert(dest + offset, x)" from offset on
RECURSIVE InsertRun(_, _, _, _)
InsertRun(list, dest, moved, offset) ==
    IF offset >= Len(moved) THEN list
    ELSE InsertRun(PyInsert(list, dest + offset, moved[offset + 1]), dest, moved, offset + 1)

\* Variant: the selection keeps the positions it had before the move.
NewSelection_Stale(dest, sel) == sel

\* "New indices of the moved pages are range(dest, dest+len(sel))"
NewSelection(dest, sel) == PyRange(dest, dest + Len(sel))

\* What _on_release started from; after is the handler that ran just before it.
ReleaseSnapshot(outcome) ==
    [handler |-> "release", outcome |-> outcome, after |-> last.handler, pages |-> pages,
     page_frames |-> page_frames, selected_indices |-> selected_indices,
     last_clicked_index |-> last_clicked_index, dragging |-> dragging,
     drag_start_index |-> drag_start_index, drop_index |-> drop_index,
     press_plain |-> press_plain]

\* _on_release(event, frame): <ButtonRelease-1>
Release ==
    /\ button
    /\ button' = FALSE
    /\ press_plain' = FALSE
    /\ UNCHANGED <<last_clicked_index, created, include_var>>
    /\ IF ReleaseReturnsEarly(dragging, drop_index)
       THEN /\ last' = ReleaseSnapshot("noop")
            /\ UNCHANGED <<pages, page_frames, selected_indices, dragging,
                           drag_start_index, drop_index, insert_bar>>
       ELSE LET sel == Sorted(selected_indices) IN
            /\ insert_bar' = FALSE
            /\ IF sel = <<>>
               THEN /\ last' = ReleaseSnapshot("abort")
                    /\ UNCHANGED <<pages, page_frames, selected_indices, dragging,
                                   drag_start_index, drop_index>>
               ELSE IF \E k \in DOMAIN sel : ~PyValid(Len(pages), sel[k])
               THEN \* IndexError while extracting: nothing was mutated yet
                    /\ last' = ReleaseSnapshot("raised")
                    /\ UNCHANGED <<pages, page_frames, selected_indices, dragging,
                                   drag_start_index, drop_index>>
               ELSE LET dest == AdjustedDest(sel, drop_index[1])
                        pages_to_move == Extract(pages, sel)
                        frames_to_move == FramesToMove(page_frames, sel)
                        rest == RemoveSelected(pages, page_frames, Reversed(sel))
                    IN  IF rest.raised
                        THEN \* IndexError in the removal loop: the lists keep what
                             \* was deleted so far, nothing else is assigned
                             /\ pages' = rest.pages
                             /\ page_frames' = rest.page_frames
                             /\ last' = ReleaseSnapshot("raised")
                             /\ UNCHANGED <<selected_indices, dragging,
                                            drag_start_index, drop_index>>
                        ELSE /\ pages' = InsertRun(rest.pages, dest, pages_to_move, 0)
                             /\ page_frames' =
                                    InsertRun(rest.page_frames, dest, frames_to_move, 0)
                             /\ selected_indices' = NewSelection(dest, sel)
                             /\ dragging' = FALSE
                             /\ drag_start_index' = None
                             /\ drop_index' = None
                             /\ last' = ReleaseSnapshot("moved")

\* ------------------------------------------------------- specifications
Init ==
    /\ pages = <<>>
    /\ page_frames = <<>>
    /\ selected_indices = <<>>
    /\ last_clicked_index = None
    /\ dragging = FALSE
    /\ drag_start_index = None
    /\ drop_index = None
    /\ insert_bar = FALSE
    /\ created = 0
    /\ button = FALSE
    /\ press_plain = FALSE
    /\ include_var = <<>>
    /\ last = [handler |-> "init"]

Next == AppendPage \/ Click \/ Drag \/ Release

\* The application driven through the bindings of _create_page_frame.
Spec == Init /\ [][Next]_vars

NextExport ==
    AppendUpTo(MaxExportPages) \/ Click \/ Drag \/ Release \/ ToggleInclude \/ Export

\* The application with the include checkboxes and the Export button as well.
SpecExport == Init /\ [][NextExport]_vars

\* A row of slots of widths ws, laid out left to right from x = 0 with gap g.
RECURSIVE SlotX(_, _, _)
SlotX(ws, g, k) == IF k <= 1 THEN 0 ELSE SlotX(ws, g, k - 1) + ws[k - 1] + g

RowOf(ws, g) == [k \in DOMAIN ws |-> [i |-> k - 1, x |-> SlotX(ws, g, k), w |-> ws[k]]]

\* One call of _compute_drop_index on a row and a pointer (x2 is twice the pointer
\* x); the function keeps no state, so every call starts from the same state.
Resolve ==
    /\ last.handler = "init"
    /\ \E n \in 0..MaxSlots, g \in 0..MaxGap :
         \E ws \in [1..n -> 1..MaxSlotWidth] :
           \E x2 \in (-2)..(2 * SlotX(ws, g, n + 1) + 2) :
               last' = [handler |-> "resolve", positions |-> RowOf(ws, g), gap |-> g,
                        x2 |-> x2, result |-> DropIndex(RowOf(ws, g), x2)]
    /\ UNCHANGED <<pages, page_frames, selected_indices, last_clicked_index, dragging,
                   drag_start_index, drop_index, insert_bar, created, button,
                   press_plain, include_var>>

\* The drop-index resolver alone, on every row and pointer within the bounds.
SpecResolver == Init /\ [][Resolve]_vars

NextStray ==
    AppendUpTo(MaxStrayPages) \/ Click \/ Drag \/ Release \/ StrayClick

\* The same, with _on_click also reached from a widget that is no page frame.
SpecStray == Init /\ [][NextStray]_vars

\* ------------------------------------------------------- properties
\* The last handler was a pointer-up that relocated the selection.
Moved == last.handler = "release" /\ last.outcome = "moved"

\* The selection S, the drop index d and the size N that relocation started from.
MovedS == Range(last.selected_indices)
MovedD == last.drop_index[1]
MovedN == Len(last.pages)

\* Number of positions of list holding item x.
Count(list, x) == Cardinality({k \in DOMAIN list : list[k] = x})

\* Position (0-based) of the item that stood at position p before the relocation.
NewPos(p) == PyIndex(pages, last.pages[p + 1])

\* S is a run of consecutive positions.
Contiguous(S) == \A p \in S, q \in S : \A r \in p..q : r \in S

\* C1: a relocation on pointer-up (non-empty selection S within [0,N), drop index d in
\* [0,N]) keeps the multiset of items (same N, nothing lost or duplicated), keeps the
\* relative order of the items in S and keeps the relative order of the items not in S.
C1_RelocationIsStablePermutation ==
    Moved =>
        /\ MovedS # {} /\ MovedS \subseteq 0..(MovedN - 1) /\ MovedD \in 0..MovedN
        /\ Len(pages) = MovedN
        /\ \A x \in Range(pages) \cup Range(last.pages) :
               Count(pages, x) = Count(last.pages, x)
        /\ \A p \in 0..(MovedN - 1), q \in 0..(MovedN - 1) :
               (p < q /\ ((p \in MovedS) <=> (q \in MovedS))) => NewPos(p) < NewPos(q)

\* A relocation that changed the order, with two or more items moved and two or more
\* items left behind, the moved ones not adjacent to each other.
C1_Witness ==
    /\ Moved
    /\ pages # last.pages
    /\ Cardinality(MovedS) >= 2
    /\ MovedN - Cardinality(MovedS) >= 2
    /\ ~Contiguous(MovedS)

\* C2: relocation reinserts the moved run at adjusted = d - |{p in S : p < d}|, which
\* lies in [0, N - |S|], and afterwards the moved items occupy exactly the contiguous
\* positions adjusted .. adjusted + |S| - 1, in their former order.
C2_AdjustedDestination ==
    Moved =>
        LET adjusted == MovedD - Cardinality({p \in MovedS : p < MovedD})
            sel == last.selected_indices
        IN  /\ adjusted \in 0..(MovedN - Cardinality(MovedS))
            /\ \A k \in DOMAIN sel : pages[adjusted + k] = last.pages[sel[k] + 1]
            /\ {NewPos(p) : p \in MovedS} =
                   adjusted..(adjusted + Cardinality(MovedS) - 1)

\* A relocation whose drop index lies behind selected positions, so that the
\* adjustment is not zero, and that lands at the very end of the shortened list.
C2_Witness ==
    /\ Moved
    /\ Cardinality({p \in MovedS : p < MovedD}) >= 2
    /\ MovedD - Cardinality({p \in MovedS : p < MovedD}) = MovedN - Cardinality(MovedS)
    /\ pages # last.pages

\* The drop index is one of the selected positions or directly behind one.
DropTouchesSelection == MovedD \in MovedS \/ (MovedD - 1) \in MovedS

\* C3 as stated: for every non-empty selection, contiguous or not, a drop on or
\* directly next to a selected position leaves the order of the collection unchanged.
C3_DropOnSelectionIsNoOp ==
    (Moved /\ DropTouchesSelection) => pages = last.pages

\* C3 amended: for every non-empty selection that is a contiguous run a..b and every
\* drop index in [a, b + 1], the relocation leaves the order unchanged.
C3_DropOnContiguousRunIsNoOp ==
    (Moved /\ Contiguous(MovedS) /\ DropTouchesSelection) =>
        /\ pages = last.pages
        /\ selected_indices = last.selected_indices

\* A run of two or more items, with other items around, dropped directly behind itself.
C3_Witness ==
    /\ Moved
    /\ Contiguous(MovedS)
    /\ Cardinality(MovedS) >= 2
    /\ MovedN > Cardinality(MovedS)
    /\ (MovedD - 1) \in MovedS /\ MovedD \notin MovedS /\ MovedD < MovedN

\* C4: after a pointer-up in Dragging with a non-empty selection the selection is the
\* new positions of the moved run: the items at the selected positions after the
\* relocation are the items at the selected positions before it, in the same order.
C4_MovedItemsStaySelected ==
    Moved =>
        /\ Len(selected_indices) = Len(last.selected_indices)
        /\ \A k \in DOMAIN selected_indices :
               /\ selected_indices[k] \in 0..(Len(pages) - 1)
               /\ pages[selected_indices[k] + 1] =
                      last.pages[last.selected_indices[k] + 1]

\* A relocation of two non-adjacent items that changed the positions selected.
C4_Witness ==
    /\ Moved
    /\ Cardinality(MovedS) >= 2
    /\ ~Contiguous(MovedS)
    /\ selected_indices # last.selected_indices

\* C5: in every state reached by appends, pointer-downs (plain, shift, ctrl),
\* pointer-moves and pointer-ups, every selected position is in [0, N).
C5_SelectionInRange ==
    \A k \in DOMAIN selected_indices : selected_indices[k] \in 0..(Len(pages) - 1)

\* The last position is selected after a relocation and after a shift click.
C5_Witness ==
    /\ Moved
    /\ PyIn(Len(pages) - 1, selected_indices)
    /\ Len(selected_indices) >= 2

\* The last handler was a pointer-down.
Clicked == last.handler = "click"

C7_PointerUpReturnsToIdle ==
    last.handler = "release" =>
        /\ dragging = FALSE
        /\ drag_start_index = None
        /\ drop_index = None

\* A pointer-up that relocates nothing: it directly follows the pointer-down, or the
\* selection is empty, or the handler returned before extracting anything.
NoRelocation ==
    /\ last.handler = "release"
    /\ \/ last.after = "click"
       \/ last.selected_indices = <<>>
       \/ last.outcome \in {"noop", "abort"}

\* C8: a pointer-up that performs no relocation (pointer-up in Pressed without any
\* pointer-move, or pointer-up in Dragging with an empty selection) leaves the order of
\* the collection, the selection and the anchor unchanged.
C8_NoRelocationChangesNothing ==
    NoRelocation =>
        /\ pages = last.pages
        /\ page_frames = last.page_frames
        /\ selected_indices = last.selected_indices
        /\ last_clicked_index = last.last_clicked_index

\* A pointer-up in Dragging over two or more pages with an empty selection, the drop
\* index being set.
C8_Witness ==
    /\ last.handler = "release"
    /\ last.dragging
    /\ last.drop_index # None
    /\ last.selected_indices = <<>>
    /\ Len(pages) >= 2

\* C9: a shift pointer-down at a valid position with a defined anchor sets the
\* selection to exactly the inclusive range [min(anchor, position), max(anchor,
\* position)], whatever it was before, and leaves the anchor unchanged.
C9_ShiftClickSelectsRange ==
    (Clicked /\ last.shift /\ last.index >= 0 /\ last.last_clicked_index # None) =>
        LET lo == Min(last.last_clicked_index[1], last.index)
            hi == Max(last.last_clicked_index[1], last.index)
        IN  /\ Range(selected_indices) = lo..hi
            /\ Len(selected_indices) = hi - lo + 1
            /\ \A k \in 1..(Len(selected_indices) - 1) :
                   selected_indices[k] < selected_indices[k + 1]
            /\ last_clicked_index = last.last_clicked_index

\* A shift click to the left of the anchor that drops a position selected before and
\* selects at least two.
C9_Witness ==
    /\ Clicked /\ last.shift /\ last.index >= 0
    /\ last.last_clicked_index # None
    /\ last.index < last.last_clicked_index[1]
    /\ \E p \in Range(last.selected_indices) : ~PyIn(p, selected_indices)

\* C10: a ctrl pointer-down at a valid position (the range-select branch of shift with
\* an anchor not being taken) toggles only that position: selected before, it is
\* removed; otherwise it is added; every other position keeps its membership, no
\* position is listed twice, and the anchor becomes the clicked position.
C10_CtrlClickToggles ==
    (Clicked /\ last.ctrl /\ last.index >= 0
        /\ ~(last.shift /\ last.last_clicked_index # None)) =>
        /\ Range(selected_indices) =
               IF last.index \in Range(last.selected_indices)
               THEN Range(last.selected_indices) \ {last.index}
               ELSE Range(last.selected_indices) \cup {last.index}
        /\ Len(selected_indices) = Cardinality(Range(selected_indices))
        /\ last_clicked_index = Some(last.index)

\* A ctrl click on a selected position that leaves two other positions selected.
C10_Witness ==
    /\ Clicked /\ last.ctrl /\ ~last.shift
    /\ PyIn(last.index, last.selected_indices)
    /\ Len(last.selected_indices) >= 3
    /\ Len(selected_indices) = Len(last.selected_indices) - 1

\* C11: a plain pointer-down (no modifier) at a valid position, from any prior
\* selection, makes the selection exactly <<position>> and the anchor position.
C11_PlainClickSelectsSingleton ==
    (Clicked /\ ~last.shift /\ ~last.ctrl /\ last.index >= 0) =>
        /\ selected_indices = <<last.index>>
        /\ last_clicked_index = Some(last.index)

\* A plain click on a selected position while a range of three or more was selected
\* and the anchor was elsewhere.
C11_Witness ==
    /\ Clicked /\ ~last.shift /\ ~last.ctrl
    /\ Len(last.selected_indices) >= 3
    /\ Contiguous(Range(last.selected_indices))
    /\ PyIn(last.index, last.selected_indices)
    /\ last.last_clicked_index # Some(last.index)
    /\ selected_indices = <<last.index>>

\* C12: a shift pointer-down at a valid position when no anchor has been set yet
\* behaves as a plain click: selection <<position>>, anchor position.
C12_ShiftClickWithoutAnchor ==
    (Clicked /\ last.shift /\ last.index >= 0 /\ last.last_clicked_index = None) =>
        /\ selected_indices = <<last.index>>
        /\ last_clicked_index = Some(last.index)

\* The first click ever is a shift click (ctrl not held) on the last of several pages.
C12_Witness ==
    /\ Clicked /\ last.shift /\ ~last.ctrl
    /\ last.last_clicked_index = None
    /\ last.index >= 2
    /\ last.index = Len(pages) - 1

\* C13: in every reachable state, a non-empty selection comes with a defined anchor.
C13_SelectionHasAnchor ==
    selected_indices # <<>> => last_clicked_index # None

\* After a relocation the selection is non-empty and the anchor, still defined, is
\* not one of the selected positions.
C13_Witness ==
    /\ Moved
    /\ selected_indices # <<>>
    /\ last_clicked_index # None
    /\ ~PyIn(last_clicked_index[1], selected_indices)

Appended == last.handler = "append"

\* C17: an append interleaved at any point between pointer events, also between the
\* pointer-down and the pointer-up of a drag, adds the new item at the end only:
\* every existing item keeps its position, and the selection, the anchor and the drag
\* state are unchanged; a relocation that follows it still moves exactly the selected
\* items and stays in bounds.
C17_AppendOnlyAddsAtEnd ==
    /\ Appended =>
           /\ Len(pages) = Len(last.pages) + 1
           /\ SubSeq(pages, 1, Len(last.pages)) = last.pages
           /\ ~PyIn(pages[Len(pages)], last.pages)
           /\ selected_indices = last.selected_indices
           /\ last_clicked_index = last.last_clicked_index
           /\ dragging = last.dragging
           /\ drag_start_index = last.drag_start_index
           /\ drop_index = last.drop_index
    /\ (Moved /\ last.after = "append") =>
           /\ Len(pages) = MovedN
           /\ Range(pages) = Range(last.pages)
           /\ Range(selected_indices) \subseteq 0..(Len(pages) - 1)
           /\ Extract(pages, selected_indices) =
                  Extract(last.pages, last.selected_indices)

\* A relocation of two items whose pointer-up directly follows an append, the append
\* having arrived while the drag was under way, the drop index pointing behind the
\* item that was last before the append.
C17_Witness ==
    /\ Moved
    /\ last.after = "append"
    /\ Cardinality(MovedS) >= 2
    /\ MovedD = MovedN - 1
    /\ pages # last.pages

\* C18: in every state reached by appends and relocations the list of page items and
\* the list of visual slots have the same length, and the slot at position i is the
\* slot created for the item at position i.
C18_FramesFollowPages ==
    /\ Len(page_frames) = Len(pages)
    /\ \A k \in DOMAIN pages : page_frames[k] = FrameOf(pages[k])

\* An append after a relocation of two non-adjacent items that changed the order.
C18_Witness ==
    /\ Appended
    /\ Len(pages) >= 4
    /\ \E k \in 1..(Len(pages) - 1) : pages[k] > pages[k + 1]
    /\ pages[1] # 1

\* C20: the click logic runs at pointer-down, before any drag: a drag begun by a
\* plain (unmodified) pointer-down relocates exactly one item, the one pressed, even
\* if several were selected before the press; two or more items are relocated only
\* when the pointer-down that began the drag was a shift or ctrl click.
C20_PlainPressDragsOneItem ==
    /\ (button /\ press_plain) =>
           /\ drag_start_index # None
           /\ selected_indices = <<drag_start_index[1]>>
    /\ (Moved /\ last.press_plain) =>
           /\ last.selected_indices = <<last.drag_start_index[1]>>
           /\ Len(selected_indices) = 1
           /\ pages[selected_indices[1] + 1] = last.pages[last.drag_start_index[1] + 1]
           /\ \A x \in Range(pages) \ {last.pages[last.drag_start_index[1] + 1]} :
                  \A y \in Range(pages) \ {last.pages[last.drag_start_index[1] + 1]} :
                      (PyIndex(last.pages, x) < PyIndex(last.pages, y))
                          => (PyIndex(pages, x) < PyIndex(pages, y))
    /\ (Moved /\ Cardinality(MovedS) >= 2) => ~last.press_plain

\* A drag begun by a plain pointer-down has moved the pressed item two or more
\* positions to the left, over at least three pages.
C20_Witness ==
    /\ Moved
    /\ last.press_plain
    /\ MovedN >= 3
    /\ selected_indices[1] + 2 <= last.drag_start_index[1]

\* The last operation was a call of the drop-index resolver.
Resolved == last.handler = "resolve"

\* Twice the midpoint x + width/2 of the k-th slot of the resolved row.
Mid2(k) == 2 * last.positions[k].x + last.positions[k].w

\* All slots of the resolved row have width W.
UniformWidth(W) == \A k \in DOMAIN last.positions : last.positions[k].w = W

\* C14: for N slots laid out left to right and a pointer x the resolver returns the
\* position of the first slot whose midpoint x + width/2 exceeds the pointer, N if no
\* midpoint exceeds it and 0 when there are no slots; the result is in [0, N]; and for
\* slots of equal width W with uniform gap G from x = 0 a pointer at
\* i*(W+G) + W/2 - 1 resolves to i.
C14_DropIndexResolver ==
    Resolved =>
        LET n == Len(last.positions)
            r == last.result
        IN  /\ r \in 0..n
            /\ n = 0 => r = 0
            /\ \A k \in 1..r : Mid2(k) <= last.x2
            /\ r < n => Mid2(r + 1) > last.x2
            /\ \A W \in 1..(MaxSlotWidth + 1), i \in 0..(n - 1) :
                   (UniformWidth(W) /\ last.x2 = 2 * i * (W + last.gap) + W - 2)
                       => r = i

\* Three slots of equal odd width with a gap, the pointer one pixel left of the
\* midpoint of the last slot: it resolves to that slot's position.
C14_Witness ==
    /\ Resolved
    /\ Len(last.positions) = 3
    /\ UniformWidth(3)
    /\ last.gap >= 1
    /\ last.x2 = 2 * 2 * (3 + last.gap) + 3 - 2
    /\ last.result = 2

\* The last handler was the Export button.
Exported == last.handler = "export"

\* Positions (1-based) of the collection holding an included item when export began.
IncludedAt == {k \in DOMAIN last.pages : last.include_var[last.pages[k]]}

\* The j-th included position in collection order.
NthIncluded(j) == CHOOSE k \in IncludedAt : Cardinality({m \in IncludedAt : m < k}) = j - 1

\* C15: export produces exactly the (source, page-number) pairs of the items whose
\* included flag is true, in current collection order.
C15_ExportIsIncludedInOrder ==
    (Exported /\ last.result.outcome = "written") =>
        LET out == last.result.written[1]
        IN  /\ Len(out) = Cardinality(IncludedAt)
            /\ \A j \in DOMAIN out :
                   out[j] = <<source_path(last.pages[NthIncluded(j)]),
                              page_index(last.pages[NthIncluded(j)])>>

\* An export after relocations and a toggle: three pages, not in import order, the
\* middle one excluded, the two written pages from different documents.
C15_Witness ==
    /\ Exported
    /\ last.result.outcome = "written"
    /\ Len(last.pages) = 3
    /\ last.pages[1] > last.pages[3]
    /\ IncludedAt = {1, 3}
    /\ last.result.written[1][1][1] # last.result.written[1][2][1]

\* The state export started from is the state it ends in.
ExportChangedNothing ==
    /\ pages = last.pages
    /\ page_frames = last.page_frames
    /\ selected_indices = last.selected_indices
    /\ last_clicked_index = last.last_clicked_index
    /\ include_var = last.include_var
    /\ dragging = last.dragging
    /\ drag_start_index = last.drag_start_index
    /\ drop_index = last.drop_index

\* C16: export with zero included pages (empty collection, or every flag false) ends
\* in the empty-selection outcome (the "No pages to export." notice for an empty
\* collection, "No pages selected for export." once a path was chosen): no source is
\* read, nothing is written, and collection, selection and session state are unchanged.
C16_ExportOfNothingFails ==
    (Exported /\ IncludedAt = {}) =>
        /\ last.result.read = {}
        /\ last.result.written = None
        /\ ExportChangedNothing
        /\ last.pages = <<>> => last.result.outcome = "no_pages"
        /\ (last.pages # <<>> /\ last.chosen) => last.result.outcome = "empty"
        /\ last.result.outcome \in {"no_pages", "empty", "cancelled"}

\* Three pages, all excluded, a non-empty selection, a path chosen: the export ends
\* with "No pages selected for export.".
C16_Witness ==
    /\ Exported
    /\ Len(last.pages) = 3
    /\ IncludedAt = {}
    /\ last.chosen
    /\ last.selected_indices # <<>>
    /\ last.result.outcome = "empty"

====
